---- MODULE Spec2Model ----
(***************************************************************************)
(* Cross-account RDS connector (account-a/lambda).                         *)
(*                                                                         *)
(* Two handlers live in the repository:                                    *)
(*   rds_connector_enhanced.py  (variant = "enhanced")                     *)
(*   rds_connector.py           (variant = "basic")                        *)
(* One invocation of lambda_handler is modelled as a sequence of steps,    *)
(* one per function the handler calls.  The remote services (parameter     *)
(* store, STS, RDS control plane, PostgreSQL) are the environment: each    *)
(* call draws its answer from a small set.                                 *)
(***************************************************************************)
EXTENDS Integers, Sequences, FiniteSets, TLC

VARIABLES
    variant,        \* which of the two handlers runs
    ACCOUNT_B_ID,   \* os.environ ACCOUNT_B_ID: 0 = unset, else the account
    request_id,     \* context.aws_request_id
    pc,             \* position of the handler
    ssm_response,   \* response['Parameters'] of ssm get_parameters
    db_params,      \* the dictionary get_parameters_from_ssm returned
    credentials,    \* response['Credentials'] of sts assume_role
    db_endpoint,    \* the address get_rds_endpoint returned
    connection,     \* the psycopg2 session and the arguments it was opened with
    result,         \* the rows execute_query returned
    response,       \* what lambda_handler returned
    fault,          \* the exception that ended the invocation
    calls,          \* the remote calls made so far, in order
    query_exit,     \* how execute_query was left
    bundles         \* the results of successive runs of the rename step

vars == <<variant, ACCOUNT_B_ID, request_id, pc, ssm_response, db_params,
          credentials, db_endpoint, connection, result, response, fault,
          calls, query_exit, bundles>>

----------------------------------------------------------------------------
(* Bounds of the environment *)

NumValues == 2          \* parameter values are 1..NumValues
NumRequestIds == 2      \* request identifiers are 1..NumRequestIds
NumAddresses == 2       \* endpoint addresses are 1..NumAddresses
MaxRows == 2            \* fetchall returns at most MaxRows rows
MaxApplications == 2    \* runs of the rename step over one store response

(* Program constants *)

PgPort == 5432

Values == 1..NumValues
RequestIds == 1..NumRequestIds
Addresses == 1..NumAddresses

----------------------------------------------------------------------------
(* Parameter names.  A name is the list str.split('/') yields for it.      *)

param_names ==
    << <<"", "myapp", "db", "username">>,
       <<"", "myapp", "db", "password">>,
       <<"", "myapp", "db", "database">>,
       <<"", "myapp", "db", "instance_identifier">> >>

(* A name the handler did not ask for, as a test double may answer.        *)
ForeignName == <<"", "myapp", "db", "port">>

AnswerableNames == param_names \o <<ForeignName>>

required_keys == {"db_username", "db_password", "db_database", "db_instance_identifier"}

Range(s) == {s[i] : i \in DOMAIN s}

(* key = param['Name'].split('/')[-1]; the dictionary key is f'db_{key}'   *)
LastSegment(name) == name[Len(name)]
RenamedKey(name) == "db_" \o LastSegment(name)

EmptyDict == [k \in {} |-> 0]

DictSet(d, k, v) == [x \in (DOMAIN d) \cup {k} |-> IF x = k THEN v ELSE d[x]]

RECURSIVE RenameInto(_, _)
RenameInto(parameters, params) ==
    IF params = <<>> THEN parameters
    ELSE RenameInto(DictSet(parameters, RenamedKey(Head(params).Name), Head(params).Value),
                    Tail(params))

(* parameters = {}; for param in response['Parameters']: ...               *)
RenameParameters(params) == RenameInto(EmptyDict, params)

(* The store responses: each answerable name absent or present with a      *)
(* value, listed in request order or in reverse.                           *)
Reverse(s) == [i \in 1..Len(s) |-> s[Len(s) + 1 - i]]

RECURSIVE Pick(_, _)
Pick(choice, i) ==
    IF i > Len(AnswerableNames) THEN <<>>
    ELSE (IF choice[i] = 0 THEN <<>>
          ELSE <<[Name |-> AnswerableNames[i], Value |-> choice[i]]>>)
         \o Pick(choice, i + 1)

StoreResponses ==
    LET fwd == {Pick(c, 1) : c \in [1..Len(AnswerableNames) -> {0} \cup Values]}
    IN  fwd \cup {Reverse(r) : r \in fwd}

ResponseKeys(params) == {RenamedKey(params[i].Name) : i \in DOMAIN params}

LacksRequiredKey(params) == \E k \in required_keys : k \notin ResponseKeys(params)

----------------------------------------------------------------------------
(* Exceptions: the class name, the function that raised, and str(e).       *)

Err(kind, origin, msg) == [kind |-> kind, origin |-> origin, msg |-> msg]
NoErr == Err("", "", "")

None == [none |-> TRUE]

NoConnection == [state |-> "none", host |-> 0, port |-> 0, database |-> 0, user |-> 0,
                 password |-> 0, autocommit |-> FALSE]

NoExit == [entered |-> FALSE, close |-> "none",
           body |-> [ok |-> FALSE, value |-> <<>>, err |-> NoErr],
           out |-> [ok |-> FALSE, value |-> <<>>, err |-> NoErr]]

Call(op, ok, code) == [op |-> op, ok |-> ok, code |-> code]

NoResponse == [statusCode |-> 0, body |-> None]

Terminated == pc \in {"done", "raised"}

----------------------------------------------------------------------------
(* What each function of the handler computes from the answer it gets.     *)
(* A function result is [ok, value, err]: the value returned or the        *)
(* exception raised.                                                       *)

Returns(v) == [ok |-> TRUE, value |-> v, err |-> NoErr]
Raises(e) == [ok |-> FALSE, value |-> <<>>, err |-> e]

(* get_parameters_from_ssm, after ssm_client.get_parameters answered.      *)
get_parameters_from_ssm(params) ==
    IF variant = "enhanced"
    THEN IF Len(params) # Len(param_names)
         THEN Raises(Err("ValueError", "get_parameters_from_ssm",
                         "Missing required parameters"))
         ELSE IF required_keys \ DOMAIN RenameParameters(params) # {}
              THEN Raises(Err("ValueError", "get_parameters_from_ssm",
                              "Missing required parameter keys"))
              ELSE Returns(RenameParameters(params))
    ELSE Returns(RenameParameters(params))

(* The answers of sts assume_role: credentials or a ClientError code.      *)
AssumeRoleAnswers == {"ok", "AccessDenied", "InvalidParameterValue", "ExpiredToken"}

(* Mutant: the AccessDenied branch logs and falls through to a return      *)
(* instead of raising again.                                               *)
assume_cross_account_role_swallowing(answer) ==
    IF answer \in {"ok", "AccessDenied"}
    THEN Returns([Account |-> ACCOUNT_B_ID,
                  RoleSessionName |-> IF variant = "enhanced" THEN request_id ELSE 0])
    ELSE Raises(Err("ClientError", "assume_cross_account_role", answer))

(* assume_cross_account_role, after sts_client.assume_role answered: every *)
(* ClientError is logged and raised again.                                 *)
assume_cross_account_role(answer) ==
    IF answer = "ok"
    THEN Returns([Account |-> ACCOUNT_B_ID,
                  RoleSessionName |-> IF variant = "enhanced" THEN request_id ELSE 0])
    ELSE Raises(Err("ClientError", "assume_cross_account_role", answer))

(* The answers of rds describe_db_instances: a ClientError, no instance,   *)
(* or one instance with its status and, when it has one, its endpoint.     *)
InstanceStatuses == {"available", "creating", "stopped"}

DescribeAnswers ==
    {[error |-> TRUE, DBInstances |-> <<>>]}
    \cup {[error |-> FALSE, DBInstances |-> <<>>]}
    \cup {[error |-> FALSE,
           DBInstances |-> <<[DBInstanceStatus |-> s, HasEndpoint |-> h, Address |-> a]>>] :
             s \in InstanceStatuses, h \in BOOLEAN, a \in Addresses}

(* What the control plane can answer: an available instance has an endpoint, *)
(* an instance being created has none yet (a stopped one may keep its      *)
(* endpoint), and an instance without an endpoint reports no address.      *)
RealDescribeAnswers ==
    {d \in DescribeAnswers :
        \A i \in DOMAIN d.DBInstances :
            /\ d.DBInstances[i].DBInstanceStatus = "available" => d.DBInstances[i].HasEndpoint
            /\ d.DBInstances[i].DBInstanceStatus = "creating" => ~d.DBInstances[i].HasEndpoint
            /\ ~d.DBInstances[i].HasEndpoint => d.DBInstances[i].Address = 1}

DescribeCode(d) ==
    IF d.error THEN "DBInstanceNotFound"
    ELSE IF d.DBInstances = <<>> THEN "empty"
    ELSE d.DBInstances[1].DBInstanceStatus

(* Mutant: a ClientError of describe_db_instances is swallowed and a       *)
(* default address returned, so the chain goes on after a failed call.     *)
get_rds_endpoint_swallowing(d) ==
    IF d.error \/ d.DBInstances = <<>> THEN Returns(1)
    ELSE IF d.DBInstances[1].DBInstanceStatus # "available" \/ ~d.DBInstances[1].HasEndpoint
         THEN Raises(Err("ValueError", "get_rds_endpoint", "RDS instance is not available"))
         ELSE Returns(d.DBInstances[1].Address)

(* get_rds_endpoint, after rds_client.describe_db_instances answered.      *)
get_rds_endpoint(d) ==
    IF d.error
    THEN Raises(Err("ClientError", "get_rds_endpoint", "DBInstanceNotFound"))
    ELSE IF variant = "enhanced"
    THEN IF d.DBInstances = <<>>
         THEN Raises(Err("ValueError", "get_rds_endpoint", "No RDS instance found"))
         ELSE IF d.DBInstances[1].DBInstanceStatus # "available"
              THEN Raises(Err("ValueError", "get_rds_endpoint", "RDS instance is not available"))
              ELSE IF ~d.DBInstances[1].HasEndpoint
                   THEN Raises(Err("KeyError", "get_rds_endpoint", "Endpoint"))
                   ELSE Returns(d.DBInstances[1].Address)
    ELSE IF d.DBInstances = <<>>
         THEN Raises(Err("IndexError", "get_rds_endpoint", "list index out of range"))
         ELSE IF ~d.DBInstances[1].HasEndpoint
              THEN Raises(Err("KeyError", "get_rds_endpoint", "Endpoint"))
              ELSE Returns(d.DBInstances[1].Address)

(* The class of the error the zero-instances branch raises.                *)
NotFoundKind == get_rds_endpoint([error |-> FALSE, DBInstances |-> <<>>]).err.kind

(* The outcomes of the body of execute_query: cursor creation, statement   *)
(* execution or row fetching fails, or fetchall returns the rows.  A row   *)
(* is "str" (JSON-native text) or "obj" (a value json cannot encode).      *)
RowValues == {"str", "obj"}

RowLists == UNION {[1..n -> RowValues] : n \in 0..MaxRows}

QueryBodies ==
    {Raises(Err("OperationalError", "execute_query", "cursor")),
     Raises(Err("ProgrammingError", "execute_query", "execute")),
     Raises(Err("OperationalError", "execute_query", "fetchall"))}
    \cup {Returns(rows) : rows \in RowLists}

(* Whether execute_query closes the session when its body is left.         *)
ClosesSession == variant = "enhanced"

(* Mutant: connection.close() in the finally clause is not guarded, so its *)
(* error replaces whatever the body produced.                              *)
execute_query_close_unguarded(body, closed) ==
    IF closed THEN body
    ELSE Raises(Err("OperationalError", "execute_query", "close"))

(* What leaves execute_query, given the outcome of its body and of         *)
(* connection.close(): the close error is swallowed by `except: pass`.     *)
execute_query(body, closed) == body

(* json.dumps of the rows: default=str turns what json cannot encode into  *)
(* text (enhanced); without it the encoding raises TypeError (basic).      *)
EncodeRows(rows) ==
    IF variant = "enhanced"
    THEN Returns([i \in DOMAIN rows |-> "str"])
    ELSE IF \E i \in DOMAIN rows : rows[i] = "obj"
         THEN Raises(Err("TypeError", "lambda_handler", "not JSON serializable"))
         ELSE Returns(rows)

(* Mutant: the response echoes the wrong parameter as the database name.   *)
SuccessResponseWrongEcho(rows) ==
    [statusCode |-> 200,
     body |-> [message |-> "Successfully connected to cross-account RDS",
               database_info |-> [endpoint |-> db_endpoint,
                                  database |-> db_params["db_instance_identifier"],
                                  user |-> db_params["db_username"]],
               query_result |-> rows,
               timestamp |-> request_id]]

(* The success response of lambda_handler.                                 *)
SuccessResponse(rows) ==
    IF variant = "enhanced"
    THEN [statusCode |-> 200,
          body |-> [message |-> "Successfully connected to cross-account RDS",
                    database_info |-> [endpoint |-> db_endpoint,
                                       database |-> db_params["db_database"],
                                       user |-> db_params["db_username"]],
                    query_result |-> rows,
                    timestamp |-> request_id]]
    ELSE [statusCode |-> 200,
          body |-> [message |-> "Successfully connected to RDS", result |-> rows]]

(* The failure response of lambda_handler (its except clause).             *)
FailureResponse(e) ==
    IF variant = "enhanced"
    THEN [statusCode |-> 500,
          body |-> [error |-> e.msg, error_type |-> e.kind, request_id |-> request_id]]
    ELSE [statusCode |-> 500, body |-> [error |-> e.msg]]

(* A session nobody closed is left to the interpreter when the handler     *)
(* returns: it may or may not have been finalized by then.                 *)
Collect(conn) ==
    IF conn.state = "open" THEN {conn, [conn EXCEPT !.state = "finalized"]} ELSE {conn}

(* The handler catches e and returns the failure response.                 *)
Fail(e, conn) ==
    /\ fault' = e
    /\ pc' = "done"
    /\ response' = FailureResponse(e)
    /\ connection' \in Collect(conn)

----------------------------------------------------------------------------
(* The steps of lambda_handler *)

Init ==
    /\ variant \in {"enhanced", "basic"}
    /\ ACCOUNT_B_ID \in {0, 1}
    /\ request_id \in RequestIds
    /\ pc = "start"
    /\ ssm_response = <<>>
    /\ db_params = EmptyDict
    /\ credentials = None
    /\ db_endpoint = 0
    /\ connection = NoConnection
    /\ result = <<>>
    /\ response = NoResponse
    /\ fault = NoErr
    /\ calls = <<>>
    /\ query_exit = NoExit
    /\ bundles = <<>>

(* Environment validation and boto3.client('ssm'), boto3.client('sts').    *)
(* In the basic handler the clients are created outside the try.           *)
Start ==
    /\ pc = "start"
    /\ IF variant = "enhanced" /\ ACCOUNT_B_ID = 0
       THEN Fail(Err("ValueError", "lambda_handler",
                     "ACCOUNT_B_ID environment variable is required"), connection)
       ELSE \E created \in BOOLEAN :
              IF created
              THEN /\ pc' = "get_parameters"
                   /\ UNCHANGED <<fault, response, connection>>
              ELSE IF variant = "enhanced"
                   THEN Fail(Err("InvalidRegionError", "lambda_handler", "client"), connection)
                   ELSE /\ pc' = "raised"
                        /\ fault' = Err("NoRegionError", "lambda_handler", "client")
                        /\ UNCHANGED <<response, connection>>
    /\ UNCHANGED <<variant, ACCOUNT_B_ID, request_id, ssm_response, db_params,
                   credentials, db_endpoint, result, calls, query_exit, bundles>>

(* db_params = get_parameters_from_ssm(ssm_client)                         *)
GetParameters ==
    /\ pc = "get_parameters"
    /\ \E failed \in BOOLEAN, params \in StoreResponses :
         /\ failed => params = <<>>
         /\ calls' = Append(calls, Call("get_parameters", ~failed,
                                        IF failed THEN "ClientError" ELSE ""))
         /\ ssm_response' = params
         /\ LET r == IF failed
                     THEN Raises(Err("ClientError", "get_parameters_from_ssm", "ssm"))
                     ELSE get_parameters_from_ssm(params)
            IN  IF r.ok
                THEN /\ db_params' = r.value
                     /\ pc' = "assume_role"
                     /\ UNCHANGED <<fault, response, connection>>
                ELSE /\ Fail(r.err, connection)
                     /\ UNCHANGED db_params
    /\ UNCHANGED <<variant, ACCOUNT_B_ID, request_id, credentials, db_endpoint,
                   result, query_exit, bundles>>

(* assumed_role = assume_cross_account_role(sts_client, ...)               *)
(* The basic handler reads os.environ['ACCOUNT_B_ID'] before the call.     *)
AssumeRole ==
    /\ pc = "assume_role"
    /\ IF ACCOUNT_B_ID = 0
       THEN /\ Fail(Err("KeyError", "assume_cross_account_role", "ACCOUNT_B_ID"), connection)
            /\ UNCHANGED <<calls, credentials>>
       ELSE \E answer \in AssumeRoleAnswers :
              LET r == assume_cross_account_role(answer)
              IN  /\ calls' = Append(calls, Call("assume_role", answer = "ok",
                                                 IF answer = "ok" THEN "" ELSE answer))
                  /\ IF r.ok
                     THEN /\ credentials' = r.value
                          /\ pc' = "create_rds_client"
                          /\ UNCHANGED <<fault, response, connection>>
                     ELSE /\ Fail(r.err, connection)
                          /\ UNCHANGED credentials
    /\ UNCHANGED <<variant, ACCOUNT_B_ID, request_id, ssm_response, db_params,
                   db_endpoint, result, query_exit, bundles>>

(* rds_client = create_rds_client(assumed_role): no remote call.           *)
CreateRdsClient ==
    /\ pc = "create_rds_client"
    /\ pc' = "get_rds_endpoint"
    /\ UNCHANGED <<variant, ACCOUNT_B_ID, request_id, ssm_response, db_params,
                   credentials, db_endpoint, connection, result, response, fault,
                   calls, query_exit, bundles>>

(* db_endpoint = get_rds_endpoint(rds_client, db_params['db_instance_identifier']) *)
GetRdsEndpoint ==
    /\ pc = "get_rds_endpoint"
    /\ IF "db_instance_identifier" \notin DOMAIN db_params
       THEN /\ Fail(Err("KeyError", "lambda_handler", "db_instance_identifier"), connection)
            /\ UNCHANGED <<calls, db_endpoint>>
       ELSE \E d \in RealDescribeAnswers :
              LET r == get_rds_endpoint(d)
              IN  /\ calls' = Append(calls, Call("describe_db_instances", ~d.error,
                                                 DescribeCode(d)))
                  /\ IF r.ok
                     THEN /\ db_endpoint' = r.value
                          /\ pc' = "connect"
                          /\ UNCHANGED <<fault, response, connection>>
                     ELSE /\ Fail(r.err, connection)
                          /\ UNCHANGED db_endpoint
    /\ UNCHANGED <<variant, ACCOUNT_B_ID, request_id, ssm_response, db_params,
                   credentials, result, query_exit, bundles>>

(* The arguments of psycopg2.connect.                                      *)
ConnectArgs ==
    [host |-> db_endpoint, port |-> PgPort,
     database |-> db_params["db_database"],
     user |-> db_params["db_username"],
     password |-> db_params["db_password"]]

(* The keys connect_to_database looks up, in the order it does.            *)
ConnectKeys == <<"db_database", "db_username", "db_password">>

MissingConnectKeys == {i \in DOMAIN ConnectKeys : ConnectKeys[i] \notin DOMAIN db_params}

FirstMissingConnectKey ==
    ConnectKeys[CHOOSE i \in MissingConnectKeys : \A j \in MissingConnectKeys : i <= j]

(* connection = connect_to_database(db_endpoint, db_params)                *)
(* The enhanced handler sets connection.autocommit after the connect; if   *)
(* that raises, the open session is dropped without a close.               *)
Connect ==
    /\ pc = "connect"
    /\ IF MissingConnectKeys # {}
       THEN /\ Fail(Err("KeyError", "connect_to_database", FirstMissingConnectKey), connection)
            /\ UNCHANGED calls
       ELSE \E connected \in BOOLEAN, autocommitSet \in BOOLEAN :
              LET a == ConnectArgs
                  conn == [state |-> IF connected THEN "open" ELSE "none",
                           host |-> a.host, port |-> a.port, database |-> a.database,
                           user |-> a.user, password |-> a.password,
                           autocommit |-> connected /\ autocommitSet /\ variant = "enhanced"]
              IN  /\ (~connected \/ variant = "basic") => autocommitSet
                  /\ calls' = Append(calls, Call("connect", connected, ""))
                  /\ IF ~connected
                     THEN Fail(Err("OperationalError", "connect_to_database", "connect"), conn)
                     ELSE IF ~autocommitSet
                     THEN Fail(Err("OperationalError", "connect_to_database", "autocommit"), conn)
                     ELSE /\ connection' = conn
                          /\ pc' = "execute_query"
                          /\ UNCHANGED <<fault, response>>
    /\ UNCHANGED <<variant, ACCOUNT_B_ID, request_id, ssm_response, db_params,
                   credentials, db_endpoint, result, query_exit, bundles>>

(* result = execute_query(connection, "SELECT ...")                        *)
(* The whole function: the body, then (enhanced) the finally clause with   *)
(* connection.close() inside try/except.                                   *)
ExecuteQuery ==
    /\ pc = "execute_query"
    /\ \E body \in QueryBodies, closed \in BOOLEAN :
         LET out == execute_query(body, closed)
             conn == IF ClosesSession
                     THEN [connection EXCEPT !.state = IF closed THEN "closed"
                                                        ELSE "close_failed"]
                     ELSE connection
         IN  /\ ~ClosesSession => closed
             /\ calls' = calls \o <<Call("query", body.ok, "")>>
                               \o (IF ClosesSession THEN <<Call("close", closed, "")>>
                                   ELSE <<>>)
             /\ query_exit' = [entered |-> TRUE,
                               close |-> IF ~ClosesSession THEN "none"
                                         ELSE IF closed THEN "ok" ELSE "fail",
                               body |-> body, out |-> out]
             /\ IF out.ok
                THEN /\ result' = out.value
                     /\ pc' = "respond"
                     /\ connection' = conn
                     /\ UNCHANGED <<fault, response>>
                ELSE /\ Fail(out.err, conn)
                     /\ UNCHANGED result
    /\ UNCHANGED <<variant, ACCOUNT_B_ID, request_id, ssm_response, db_params,
                   credentials, db_endpoint, bundles>>

(* return {'statusCode': 200, 'body': json.dumps(...)}, inside the try.    *)
Respond ==
    /\ pc = "respond"
    /\ LET enc == EncodeRows(result)
       IN  IF enc.ok
           THEN /\ response' = SuccessResponse(enc.value)
                /\ pc' = "done"
                /\ connection' \in Collect(connection)
                /\ UNCHANGED fault
           ELSE Fail(enc.err, connection)
    /\ UNCHANGED <<variant, ACCOUNT_B_ID, request_id, ssm_response, db_params,
                   credentials, db_endpoint, result, calls, query_exit, bundles>>

Next ==
    \/ Start
    \/ GetParameters
    \/ AssumeRole
    \/ CreateRdsClient
    \/ GetRdsEndpoint
    \/ Connect
    \/ ExecuteQuery
    \/ Respond

Spec == Init /\ [][Next]_vars

(* One handler at a time.                                                  *)
InitEnhanced == Init /\ variant = "enhanced"
SpecEnhanced == InitEnhanced /\ [][Next]_vars

InitBasic == Init /\ variant = "basic"
SpecBasic == InitBasic /\ [][Next]_vars

----------------------------------------------------------------------------
(* The rename step on its own: the loop of get_parameters_from_ssm run     *)
(* repeatedly over one store response.                                     *)

InitRename ==
    /\ variant \in {"enhanced", "basic"}
    /\ ACCOUNT_B_ID = 1
    /\ request_id = 1
    /\ pc = "rename"
    /\ ssm_response \in StoreResponses
    /\ db_params = EmptyDict
    /\ credentials = None
    /\ db_endpoint = 0
    /\ connection = NoConnection
    /\ result = <<>>
    /\ response = NoResponse
    /\ fault = NoErr
    /\ calls = <<>>
    /\ query_exit = NoExit
    /\ bundles = <<>>

(* Mutant: the loop pops the entries off response['Parameters'].           *)
ApplyRenameDraining ==
    /\ pc = "rename"
    /\ Len(bundles) < MaxApplications
    /\ db_params' = RenameParameters(ssm_response)
    /\ bundles' = Append(bundles, [response |-> ssm_response,
                                   bundle |-> RenameParameters(ssm_response)])
    /\ ssm_response' = <<>>
    /\ UNCHANGED <<variant, ACCOUNT_B_ID, request_id, pc, credentials,
                   db_endpoint, connection, result, response, fault, calls, query_exit>>

(* parameters = {}; for param in response['Parameters']: ... -- the loop   *)
(* reads the response and builds a fresh dictionary.                       *)
ApplyRename ==
    /\ pc = "rename"
    /\ Len(bundles) < MaxApplications
    /\ db_params' = RenameParameters(ssm_response)
    /\ bundles' = Append(bundles, [response |-> ssm_response,
                                   bundle |-> RenameParameters(ssm_response)])
    /\ UNCHANGED <<variant, ACCOUNT_B_ID, request_id, pc, ssm_response, credentials,
                   db_endpoint, connection, result, response, fault, calls, query_exit>>

NextRename == ApplyRename

SpecRename == InitRename /\ [][NextRename]_vars

----------------------------------------------------------------------------
(* Properties *)

Made(op) == \E i \in DOMAIN calls : calls[i].op = op

CallCount(op) == Cardinality({i \in DOMAIN calls : calls[i].op = op})

Failed == pc = "done" /\ response.statusCode = 500 /\ fault # NoErr

(* A configuration error: the ValueError of a validation, or the KeyError  *)
(* of a missing setting or parameter.                                      *)
ConfigurationError(e) == e.kind \in {"ValueError", "KeyError"}

(* C1: when the parameter-store response lacks one of the four required    *)
(* keys, the invocation fails with a configuration error and sts           *)
(* assume_role is never called.                                            *)
C1_MissingKeyFailsBeforeAssumeRole ==
    (Made("get_parameters") /\ calls[1].ok /\ LacksRequiredKey(ssm_response))
        => /\ ~Made("assume_role")
           /\ Terminated => (Failed /\ ConfigurationError(fault))

(* C2: when assume_role is answered with AccessDenied, the invocation ends *)
(* in a failure response and neither describe_db_instances nor a SQL       *)
(* connect is called.                                                      *)
C2_AccessDeniedStopsTheChain ==
    (\E i \in DOMAIN calls : calls[i].op = "assume_role" /\ calls[i].code = "AccessDenied")
        => /\ Failed
           /\ fault = Err("ClientError", "assume_cross_account_role", "AccessDenied")
           /\ ~Made("describe_db_instances")
           /\ ~Made("connect")

C2_Witness ==
    /\ Terminated
    /\ \E i \in DOMAIN calls : calls[i].op = "assume_role" /\ calls[i].code = "AccessDenied"

(* C3: when the control plane reports the matched instance with a status   *)
(* other than "available", the invocation fails with an error whose kind   *)
(* differs from the kind raised when no instance matches, and no SQL       *)
(* connect is ever called.                                                 *)
C3_UnavailableNeverConnects ==
    (\E i \in DOMAIN calls : /\ calls[i].op = "describe_db_instances"
                              /\ calls[i].ok
                              /\ calls[i].code \notin {"empty", "available"})
        => /\ ~Made("connect")
           /\ Terminated => (Failed /\ fault.kind # NotFoundKind)

(* C4: once execute_query has been entered with an open session,           *)
(* connection.close() has been called exactly once when it is left,        *)
(* whatever the outcome of its body.                                       *)
C4_CloseExactlyOnce == query_exit.entered => CallCount("close") = 1

(* C5: every invocation ends by returning {statusCode, body}: no fault     *)
(* leaves the handler, and a failure response has statusCode 500 and a     *)
(* body with the error message, the error kind and the request id.         *)
C5_AlwaysStructuredResponse ==
    /\ pc # "raised"
    /\ pc = "done" => response.statusCode \in {200, 500}
    /\ (pc = "done" /\ fault # NoErr)
          => /\ response.statusCode = 500
             /\ {"error", "error_type", "request_id"} \subseteq DOMAIN response.body
             /\ response.body.error = fault.msg
             /\ response.body.error_type = fault.kind
             /\ response.body.request_id = request_id

(* C6: in a success response the echoed database name and user are the     *)
(* ConfigBundle values passed to psycopg2.connect, and the echoed endpoint *)
(* is the host the connection was opened to.                               *)
C6_EchoMatchesConnection ==
    response.statusCode = 200
        => /\ response.body.database_info.database = connection.database
           /\ response.body.database_info.user = connection.user
           /\ response.body.database_info.endpoint = connection.host
           /\ connection.database = db_params["db_database"]
           /\ connection.user = db_params["db_username"]

C6_Witness ==
    /\ response.statusCode = 200
    /\ connection.state = "closed"
    /\ connection.database # connection.user
    /\ connection.database # db_params["db_instance_identifier"]

(* C7: a failure of connection.close() never changes the outcome of        *)
(* execute_query: a failed body leaves with its own error, a successful    *)
(* body still returns its rows, and the close error is never surfaced.     *)
C7_CloseErrorNeverSurfaces ==
    (query_exit.entered /\ query_exit.close = "fail")
        => /\ query_exit.out = query_exit.body
           /\ query_exit.body.ok => (result = query_exit.body.value /\ fault = NoErr)
           /\ ~query_exit.body.ok => (Failed /\ fault = query_exit.body.err
                                      /\ response.body.error = query_exit.body.err.msg)

C7_Witness ==
    /\ query_exit.entered
    /\ query_exit.close = "fail"
    /\ ~query_exit.body.ok
    /\ query_exit.body.err.msg = "execute"

(* C8: the remote calls of one invocation follow the fixed order parameter *)
(* fetch, role assumption, endpoint resolution, connect, query, close;     *)
(* each is made at most once; a call is made only after every earlier one  *)
(* succeeded (the close alone follows a failed query); and a failed call   *)
(* ends the invocation in a failure.                                       *)
CallOrder ==
    <<"get_parameters", "assume_role", "describe_db_instances", "connect", "query", "close">>

C8_FixedOrderNoRetry ==
    /\ Len(calls) <= Len(CallOrder)
    /\ \A i \in DOMAIN calls : calls[i].op = CallOrder[i]
    /\ \A i \in DOMAIN calls : \A j \in DOMAIN calls :
          i < j => \/ calls[i].ok
                   \/ (calls[i].op = "query" /\ calls[j].op = "close")
    /\ (\E i \in DOMAIN calls : ~calls[i].ok /\ calls[i].op # "close") => Failed

C8_Witness ==
    /\ Terminated
    /\ Len(calls) = Len(CallOrder)
    /\ ~calls[5].ok

C10_NoSessionLeftOpen == Terminated => connection.state # "open"

====
